---- MODULE Spec2Model ----
(***************************************************************************)
(* Model of the mouth de-click engine of content.js                        *)
(* (class AdvancedMouthDeClicker, the AudioProcessor controller and the    *)
(* chrome.runtime.onMessage listener).                                     *)
(*                                                                         *)
(* Units.  Times are integers in microseconds; performance.now() and       *)
(* audioContext.currentTime are one clock that starts when the audio       *)
(* context is created.  Gains are integers in units of 0.0001 (1.0 is      *)
(* 10000).  sensitivity and frequencySkew are in tenths, clickWidening in  *)
(* milliseconds, reductionAmount in dB, confidences in thousandths.  NaN   *)
(* is a distinguished integer that every arithmetic operator tests for.    *)
(*                                                                         *)
(* One analysed frame is abstracted to what the rest of the tick reads     *)
(* from it: its loudness in dB, the isClickDetected decision and the       *)
(* adjustedConfidence handed to the rate limiter.  SpecDetect derives them *)
(* from the frame's measurements as detectMouthClick does, with a linear   *)
(* predictor of order LpcOrder on windows of a few samples.                *)
(***************************************************************************)
EXTENDS Integers, Sequences, FiniteSets, TLC

VARIABLES
    context,              \* AudioProcessor.context: "none" | "suspended" | "running"
    playing,              \* the video elements that have fired a play event
    connections,          \* AudioProcessor.activeConnections (the handled videos)
    deClicker,            \* AudioProcessor.mouthDeClicker has been constructed
    loops,                \* detect callbacks pending in requestAnimationFrame
    loaded,               \* the constructor's chrome.storage.sync.get callback has run
    processingEnabled,    \* "undefined" | "true" | "false"
    params,               \* this.params
    now,                  \* the clock
    frameCounter,         \* this.frameCounter, kept modulo processingInterval
    lastProcessingTime,   \* this.lastProcessingTime
    callLog,              \* history: which of the last analyzeAudio calls reached detection
    loudnessHistory,      \* this.loudnessHistory
    rawSamples,           \* raw samples held in this.timeData and this.circularBuffer
    detection,            \* history: the last detectMouthClick call on a measured frame
    clickHistory,         \* this.clickHistory
    lastClickTime,        \* this.lastClickTime
    clickSuppressionTime, \* this.clickSuppressionTime
    gainEvents,           \* automation timeline of this.clickGain.gain
    clickCount,           \* this.clickCount
    admitted,             \* history: timestamps of every event shouldProcessClick admitted
    lastTick,             \* history: what the last analyzeAudio call did
    envelope,             \* history: the last call of handleMouthClickDetected
    stoppedAt,            \* history: time of the toggleProcessing(false) in force, or -1
    lastOp,               \* history: the last configuration operation and the state before it
    siteSync              \* chrome.storage.sync siteSettings, and the toggle traffic of the tabs

vars == << context, playing, connections, deClicker, loops, loaded, processingEnabled, params, now,
           frameCounter, lastProcessingTime, callLog, loudnessHistory, rawSamples,
           detection,
           clickHistory, lastClickTime, clickSuppressionTime, gainEvents, clickCount,
           admitted, lastTick, envelope, stoppedAt, lastOp, siteSync >>

pageVars    == << context, playing, connections, deClicker, loops >>
rateVars    == << clickHistory, lastClickTime, clickSuppressionTime, admitted >>
gainVars    == << gainEvents, clickCount, envelope >>
frameVars   == << frameCounter, lastProcessingTime, callLog >>

-----------------------------------------------------------------------------
(* Bounds of the model *)

MaxTime     == 375000     \* horizon of Spec and SpecLoop (microseconds)
MaxBroadcasts == 1          \* changes of the popup's toggle in SpecToggle
MaxRateTime == 1134000    \* horizon of SpecRate (microseconds)

(* Program constants *)

NaN                  == 999999999
Unity                == 10000
GainFloor            == 1
MinHeldGain          == 1000
ProcessingInterval   == 3
TargetProcessingRate == 60
HistoryLength        == 30
MaxClicksPerSecond   == 8
MinClickInterval     == 125000
SuppressionTime      == 50000
HistoryWindow        == 1000000
LookAhead            == 120000
DefaultWidening      == 5000
FallbackDip          == 3000
FallbackRecovery     == 50000
SmackMinWidening     == 8
SmackSkewShift       == 2
SmackSkewFloor       == -3

Max(a, b) == IF a >= b THEN a ELSE b
Min(a, b) == IF a <= b THEN a ELSE b

\* Math.max(lo, Math.min(hi, x)): NaN goes through both and comes out NaN.
Clamp(lo, hi, x) == IF x = NaN THEN NaN ELSE Max(lo, Min(hi, x))

DefaultParams ==
    [ sensitivity     |-> 10,
      frequencySkew   |-> 0,
      clickWidening   |-> 5,
      reductionAmount |-> -60,
      mode            |-> "click" ]

\* The ranges the setters clamp to.
ValidParams(p) ==
    /\ p.sensitivity \in 1..20
    /\ p.frequencySkew \in -10..10
    /\ p.clickWidening \in 1..20
    /\ p.reductionAmount \in -60..0
    /\ p.mode \in {"click", "smack"}

-----------------------------------------------------------------------------
(* The gain AudioParam: a timeline of automation events sorted by time.     *)

SetEvent(v, t)  == [time |-> t, value |-> v, kind |-> "set"]
RampEvent(v, t) == [time |-> t, value |-> v, kind |-> "ramp"]

\* cancelScheduledValues(t): every event at or after t is removed.
CancelScheduledValues(ev, t) == SelectSeq(ev, LAMBDA e : e.time < t)

\* A new event goes after the events already scheduled at or before its time.
InsertEvent(ev, e) ==
    SelectSeq(ev, LAMBDA x : x.time <= e.time) \o << e >> \o
    SelectSeq(ev, LAMBDA x : x.time > e.time)

SetValueAtTime(ev, v, t)            == InsertEvent(ev, SetEvent(v, t))
LinearRampToValueAtTime(ev, v, t)   == InsertEvent(ev, RampEvent(v, t))

\* The value the parameter has at time t: the last event at or before t,
\* unless the next event is a ramp, which interpolates from that last event.
GainAt(ev, t) ==
    LET past   == SelectSeq(ev, LAMBDA e : e.time <= t)
        future == SelectSeq(ev, LAMBDA e : e.time > t)
        v0     == IF past = << >> THEN Unity ELSE past[Len(past)].value
        t0     == IF past = << >> THEN 0 ELSE past[Len(past)].time
    IN  IF future # << >> /\ future[1].kind = "ramp"
        THEN v0 + ((future[1].value - v0) * (t - t0)) \div (future[1].time - t0)
        ELSE v0

\* The timeline as the model stores it at clock t: the last event at or before
\* t and every later one.  Earlier events no longer decide any value the
\* parameter takes at or after t.
Elapsed(ev, t) ==
    LET past == SelectSeq(ev, LAMBDA e : e.time <= t)
    IN  IF Len(past) <= 1 THEN ev
        ELSE << past[Len(past)] >> \o SelectSeq(ev, LAMBDA e : e.time > t)

-----------------------------------------------------------------------------
(* handleMouthClickDetected                                                 *)

\* 10^(m/20) for m in 0..19, in units of 0.0001.
Pow10Table ==
    << 10000, 11220, 12589, 14125, 15849, 17783, 19953, 22387, 25119, 28184,
       31623, 35481, 39811, 44668, 50119, 56234, 63096, 70795, 79433, 89125 >>

RECURSIVE TenTo(_)
TenTo(n) == IF n <= 0 THEN 1 ELSE 10 * TenTo(n - 1)

\* Math.pow(10, r / 20) in units of 0.0001.
Pow10Db(r) ==
    IF r = NaN THEN NaN
    ELSE LET q == r \div 20
             m == r % 20
         IN  IF q >= 0 THEN Pow10Table[m + 1] * TenTo(q)
             ELSE Pow10Table[m + 1] \div TenTo(-q)

\* ReductionFactor with the sign of the exponent lost: 10^(-r/20).
ReductionFactorInverted(r) ==
    LET raw == IF r = NaN THEN NaN
               ELSE IF r <= -60 THEN GainFloor ELSE Pow10Db(0 - r)
    IN  IF raw = NaN \/ raw <= 0 THEN GainFloor ELSE raw

\* ReductionFactor without the complete-removal branch: 10^(r/20) throughout.
ReductionFactorNoFloor(r) ==
    LET raw == Pow10Db(r)
    IN  IF raw = NaN \/ raw <= 0 THEN GainFloor ELSE raw

\* The reduction factor after its safety check.
ReductionFactor(r) ==
    LET raw == IF r # NaN /\ r <= -60 THEN GainFloor ELSE Pow10Db(r)
    IN  IF raw = NaN \/ raw <= 0 THEN GainFloor ELSE raw

\* The level the envelope is held at: Math.max(0.1, reductionFactor).
HeldGain(rf) == Max(MinHeldGain, rf)

\* The confidence after its safety check.
SafeConfidence(c) == IF c = NaN \/ c < 0 THEN 500 ELSE c

\* baseWidening * modeMultiplier, in microseconds.
WideningDuration(p) ==
    IF p.clickWidening = NaN THEN NaN
    ELSE IF p.mode = "smack" THEN (p.clickWidening * 1000 * 3) \div 2
    ELSE p.clickWidening * 1000

WideningInvalid(wd) == wd = NaN \/ wd <= 0

\* wideningDuration is declared const: the assignment of the 5 ms fallback
\* raises a TypeError instead of replacing the value.
WideningFallbackThrows == TRUE

FadeInTime(wd)  == Max(10000, wd \div 2)
FadeOutTime(wd) == Max(20000, (wd * 3) \div 2)

\* The six control points of the try block, in the order they are scheduled.
MainCurve(la, wd, rf) ==
    << SetEvent(Unity, la - FadeInTime(wd)),
       RampEvent(HeldGain(rf), la),
       SetEvent(HeldGain(rf), la + wd),
       RampEvent(6000, la + wd + (FadeOutTime(wd) * 3) \div 10),
       RampEvent(8500, la + wd + (FadeOutTime(wd) * 7) \div 10),
       RampEvent(Unity, la + wd + FadeOutTime(wd)) >>

\* FallbackCurve without its recovery ramp.
FallbackCurveNoRecovery(la) == << SetEvent(FallbackDip, la) >>

\* The two control points of the catch block.
FallbackCurve(la) ==
    << SetEvent(FallbackDip, la), RampEvent(Unity, la + FallbackRecovery) >>

RECURSIVE InsertAll(_, _)
InsertAll(ev, points) ==
    IF points = << >> THEN ev
    ELSE InsertAll(InsertEvent(ev, Head(points)), Tail(points))

\* Result of one call at time t with the given parameters and timeline.
\* threw: an exception left the function (nothing was scheduled or counted).
HandleMouthClickDetected(p, ev, t, confidence) ==
    LET la  == t + LookAhead
        wd0 == WideningDuration(p)
        rf  == ReductionFactor(p.reductionAmount)
        cf  == SafeConfidence(confidence)
        wd  == IF WideningInvalid(wd0) THEN DefaultWidening ELSE wd0
    IN  IF WideningInvalid(wd0) /\ WideningFallbackThrows
        THEN [ threw |-> TRUE, events |-> ev, counted |-> FALSE, kind |-> "none",
               points |-> << >>, reductionFactor |-> rf, confidence |-> cf,
               widening |-> wd0 ]
        ELSE IF la - 2 * wd >= 0
        THEN [ threw |-> FALSE,
               events |-> InsertAll(CancelScheduledValues(ev, la - 2 * wd),
                                    MainCurve(la, wd, rf)),
               counted |-> TRUE, kind |-> "main",
               points |-> MainCurve(la, wd, rf), reductionFactor |-> rf,
               confidence |-> cf, widening |-> wd ]
        ELSE \* cancelScheduledValues(negative time) raises a RangeError
             [ threw |-> FALSE,
               events |-> InsertAll(CancelScheduledValues(ev, la), FallbackCurve(la)),
               counted |-> TRUE, kind |-> "fallback",
               points |-> FallbackCurve(la), reductionFactor |-> rf,
               confidence |-> cf, widening |-> wd ]

NoEnvelope ==
    [ called |-> FALSE, params |-> DefaultParams, at |-> 0, given |-> 0,
      result |-> [ threw |-> FALSE, events |-> << >>, counted |-> FALSE,
                   kind |-> "none", points |-> << >>, reductionFactor |-> 0,
                   confidence |-> 0, widening |-> 0 ] ]

-----------------------------------------------------------------------------
(* The sample buffers.  A frame is the analyser's frequencyBinCount (4096)  *)
(* time-domain samples; the circular buffer holds 120 ms of samples (5760   *)
(* at 48 kHz).  The model keeps how many samples of each analysed frame a   *)
(* buffer still holds, newest frame first, not the sample values.           *)

FrameLength == 4096
BufferSize  == 5760

RECURSIVE KeepNewest(_, _)
KeepNewest(counts, room) ==
    IF counts = << >> \/ room <= 0 THEN << >>
    ELSE << Min(Head(counts), room) >> \o KeepNewest(Tail(counts), room - Head(counts))

\* The loop that copies timeData into circularBuffer: the frame's samples
\* overwrite the oldest cells.
WriteCircularBuffer(counts) == KeepNewest(<< FrameLength >> \o counts, BufferSize)

NoSamples == [ timeData |-> 0, circularBuffer |-> << >> ]

-----------------------------------------------------------------------------
(* updateDynamicLoudness and shouldProcessClick                             *)

\* The history after one more loudness value: push, then shift when over 30.
UpdateDynamicLoudness(hist, db) ==
    LET pushed == Append(hist, db)
    IN  IF Len(pushed) > HistoryLength THEN Tail(pushed) ELSE pushed

\* isFinite(timeData[i]): samples are in units of 0.0001, a non-finite one is
\* NaN.
IsFiniteSample(x) == x # NaN

\* The loop over timeData: the squares of the finite samples, in 1e-8.
RECURSIVE SumOfFiniteSquares(_)
SumOfFiniteSquares(timeData) ==
    IF timeData = << >> THEN 0
    ELSE (IF IsFiniteSample(Head(timeData)) THEN Head(timeData) * Head(timeData) ELSE 0)
         + SumOfFiniteSquares(Tail(timeData))

RECURSIVE TenToThe(_)
TenToThe(k) == IF k <= 0 THEN 1 ELSE 10 * TenToThe(k - 1)

\* The largest k with 10^k <= sum / len, for sum > 0: the decade of the mean
\* square rms * rms, in units of 1e-8.
RECURSIVE MeanSquareDecade(_, _, _)
MeanSquareDecade(sum, len, k) ==
    IF (k >= 0 /\ sum >= TenToThe(k) * len) \/ (k < 0 /\ sum * TenToThe(-k) >= len)
    THEN k
    ELSE MeanSquareDecade(sum, len, k - 1)

\* loudnessDb of updateDynamicLoudness, rounded down to a multiple of 10 dB:
\* rms = sqrt(sum / length) is finite, and 20 * log10(rms) is
\* 10 * log10(sum / length) - 80 in these units.  Math.max(rms, 1e-10) keeps
\* the logarithm at or above -200 dB.
LoudnessDb(timeData) ==
    LET sum == SumOfFiniteSquares(timeData)
    IN  IF sum > 0
        THEN Max(10 * MeanSquareDecade(sum, Len(timeData), 8) - 80, -200)
        ELSE -60

\* Math.pow(s, 0.8) in thousandths for s = 0.1 .. 2.0 (tenths 1..20), and for
\* 100.0, the percentage an older popup stored under the same key.
Pow08Table ==
    << 158, 276, 382, 480, 574, 665, 752, 837, 919, 1000,
       1079, 1157, 1234, 1309, 1383, 1456, 1529, 1600, 1671, 1741 >>

Pow08(s) ==
    IF s \in 1..20 THEN Pow08Table[s]
    ELSE IF s = 1000 THEN 39811
    ELSE IF s = 0 THEN 0
    ELSE NaN

\* PruneHistory without the filter: no timestamp ever leaves the window.
PruneHistoryKeepAll(h, t) == h

\* clickHistory.filter(time => currentTime - time < 1000)
PruneHistory(h, t) == SelectSeq(h, LAMBDA x : t - x < HistoryWindow)

\* BelowRequiredConfidence with a requirement that ignores the window size.
BelowRequiredConfidenceFlat(confidence, n, s) ==
    LET boost == Pow08(s)
    IN  IF confidence = NaN \/ boost = NaN THEN FALSE
        ELSE IF boost = 0 THEN TRUE
        ELSE confidence * boost < 500 * 1000

\* confidence < requiredConfidence, where
\* requiredConfidence = 0.5 / boost + (n / 8) * 0.3 / boost, boost = s^0.8.
\* A comparison with NaN is false; a zero boost makes the requirement infinite.
BelowRequiredConfidence(confidence, n, s) ==
    LET boost == Pow08(s)
    IN  IF confidence = NaN \/ boost = NaN THEN FALSE
        ELSE IF boost = 0 THEN TRUE
        ELSE confidence * boost * MaxClicksPerSecond
                 < (500 * MaxClicksPerSecond + 300 * n) * 1000

\* TooSoonAfterLast with the interval read in the wrong unit.
TooSoonAfterLastWrongUnit(t, last) == t - last < MinClickInterval \div 1000

InSuppression(t, until) == t < until
WindowFull(h) == Len(h) >= MaxClicksPerSecond
TooSoonAfterLast(t, last) == t - last < MinClickInterval

\* ShouldProcessClick without its window and spacing checks.
ShouldProcessClickUnlimited(rl, isDetected, confidence, t, s) ==
    LET pruned == PruneHistory(rl.clickHistory, t)
        kept   == [rl EXCEPT !.clickHistory = pruned]
    IN  IF ~isDetected THEN [admit |-> FALSE, rl |-> rl]
        ELSE IF InSuppression(t, rl.clickSuppressionTime)
             THEN [admit |-> FALSE, rl |-> kept]
        ELSE IF BelowRequiredConfidence(confidence, Len(pruned), s)
             THEN [admit |-> FALSE, rl |-> kept]
        ELSE [ admit |-> TRUE,
               rl |-> [ clickHistory         |-> Append(pruned, t),
                        lastClickTime        |-> t,
                        clickSuppressionTime |-> t + SuppressionTime ] ]

\* rl is [clickHistory, lastClickTime, clickSuppressionTime]; the result is
\* the returned boolean and the three fields after the call.
ShouldProcessClick(rl, isDetected, confidence, t, s) ==
    LET pruned == PruneHistory(rl.clickHistory, t)
        kept   == [rl EXCEPT !.clickHistory = pruned]
    IN  IF ~isDetected THEN [admit |-> FALSE, rl |-> rl]
        ELSE IF InSuppression(t, rl.clickSuppressionTime)
             THEN [admit |-> FALSE, rl |-> kept]
        ELSE IF WindowFull(pruned) THEN [admit |-> FALSE, rl |-> kept]
        ELSE IF TooSoonAfterLast(t, rl.lastClickTime)
             THEN [admit |-> FALSE, rl |-> kept]
        ELSE IF BelowRequiredConfidence(confidence, Len(pruned), s)
             THEN [admit |-> FALSE, rl |-> kept]
        ELSE [ admit |-> TRUE,
               rl |-> [ clickHistory         |-> Append(pruned, t),
                        lastClickTime        |-> t,
                        clickSuppressionTime |-> t + SuppressionTime ] ]

-----------------------------------------------------------------------------
(* detectMouthClick.  Sample amplitudes, the prediction error and            *)
(* maxAmplitude are integers in units of 0.0001; autocorrelations and the    *)
(* LPC error in units of 1e-8; LPC coefficients, band ratios and confidences *)
(* in thousandths; the spectral flux in hundredths of a dB; the              *)
(* signal-to-noise ratio in tenths of a dB; powers of the sensitivity in     *)
(* units of 0.0001.                                                          *)

Abs(x) == IF x < 0 THEN 0 - x ELSE x

RECURSIVE SumTo(_, _)
SumTo(F(_), n) == IF n <= 0 THEN 0 ELSE F(n) + SumTo(F, n - 1)

\* Math.sqrt of a non-negative integer below 2^30, rounded down: the root
\* lies in lo .. hi - 1.
RECURSIVE SqrtBetween(_, _, _)
SqrtBetween(x, lo, hi) ==
    IF hi - lo <= 1 THEN lo
    ELSE LET mid == (lo + hi) \div 2
         IN  IF mid * mid <= x THEN SqrtBetween(x, mid, hi) ELSE SqrtBetween(x, lo, mid)
Sqrt(x) == SqrtBetween(x, 0, 32768)

\* The order of the linear predictor in the model (16 in the code), with
\* analysis windows of a few samples.
LpcOrder == 3

LpcErrorOne == 100000000

DegenerateLpc == [ coefficients |-> [j \in 0..LpcOrder |-> 0], error |-> LpcErrorOne ]

\* r[k]: the sum of signal[i] * signal[i + k] over i, divided by its n - k terms.
AutocorrelationSum(signal, k) ==
    LET Term(i) == signal[i] * signal[i + k]
    IN  SumTo(Term, Len(signal) - k)

Autocorrelation(signal, k) == AutocorrelationSum(signal, k) \div (Len(signal) - k)

\* The inner loop that updates a[1..i-1] in place, in increasing j.
RECURSIVE UpdateCoefficients(_, _, _, _)
UpdateCoefficients(a, lambda, i, j) ==
    IF j >= i THEN a
    ELSE UpdateCoefficients(
             [a EXCEPT ![j] = a[j] - (lambda * a[i - j]) \div 1000], lambda, i, j + 1)

\* One round i of the Levinson-Durbin loop on coefficients a and error e: a
\* break (|e| < 1e-10, which is e = 0 in units of 1e-8, or |lambda| >= 1)
\* leaves both as they are.
LevinsonStep(r, a, e, i) ==
    LET Term(j) == IF j < i THEN (a[j] * r[i - j]) \div 1000 ELSE 0
        diff    == r[i] - SumTo(Term, i - 1)
    IN  IF e = 0 \/ Abs(diff) >= Abs(e)
        THEN [stopped |-> TRUE, lambda |-> 0, coefficients |-> a, error |-> e]
        ELSE LET lambda == (diff * 1000) \div e
             IN  [ stopped      |-> FALSE,
                   lambda       |-> lambda,
                   coefficients |->
                       [UpdateCoefficients(a, lambda, i, 1) EXCEPT ![i] = lambda],
                   error        |-> e - (e * ((lambda * lambda) \div 1000)) \div 1000 ]

\* The loop from round i on.  The returned error is Math.max(e, 1e-10), at
\* least one unit here.
RECURSIVE LevinsonDurbin(_, _, _, _)
LevinsonDurbin(r, a, e, i) ==
    IF i > LpcOrder THEN [coefficients |-> a, error |-> Max(e, 1)]
    ELSE LET step == LevinsonStep(r, a, e, i)
         IN  IF step.stopped THEN [coefficients |-> a, error |-> Max(e, 1)]
             ELSE LevinsonDurbin(r, step.coefficients, step.error, i + 1)

\* The rounds the loop runs from round i on: the round number, the
\* coefficients before it, and its outcome.
RECURSIVE LevinsonRounds(_, _, _, _)
LevinsonRounds(r, a, e, i) ==
    IF i > LpcOrder THEN << >>
    ELSE LET step == LevinsonStep(r, a, e, i)
             this == [i |-> i, before |-> a, step |-> step]
         IN  IF step.stopped THEN << this >>
             ELSE << this >> \o LevinsonRounds(r, step.coefficients, step.error, i + 1)

InitialCoefficients == [j \in 0..LpcOrder |-> IF j = 0 THEN 1000 ELSE 0]

\* computeLPCCoefficients(signal, order): too few samples or no energy
\* (r[0] < 1e-10) gives zero coefficients and error 1.0.
ComputeLPCCoefficients(signal) ==
    IF Len(signal) < 2 * LpcOrder THEN DegenerateLpc
    ELSE IF 100 * AutocorrelationSum(signal, 0) < Len(signal) THEN DegenerateLpc
    ELSE LET r == [k \in 0..LpcOrder |-> Autocorrelation(signal, k)]
         IN  LevinsonDurbin(r, InitialCoefficients, r[0], 1)

\* The rounds of the loop on a signal; none when it returns early.
LpcRounds(signal) ==
    IF Len(signal) < 2 * LpcOrder THEN << >>
    ELSE IF 100 * AutocorrelationSum(signal, 0) < Len(signal) THEN << >>
    ELSE LET r == [k \in 0..LpcOrder |-> Autocorrelation(signal, k)]
         IN  LevinsonRounds(r, InitialCoefficients, r[0], 1)

\* computePredictionError: error[i] for i = order .. n - 1 (0 before that);
\* the model's sequence index is i + 1.
ComputePredictionError(signal, coefficients) ==
    [ i \in 1..Len(signal) |->
        IF i <= LpcOrder THEN 0
        ELSE LET Term(j) == coefficients[j] * signal[i - j]
             IN  signal[i] - SumTo(Term, LpcOrder) \div 1000 ]

\* errorRMS and errorPeak over error[order ..]; with no such sample the
\* mean is 0 / 0.
ErrorRMS(err) ==
    LET Square(i) == IF i > LpcOrder THEN err[i] * err[i] ELSE 0
    IN  IF Len(err) <= LpcOrder THEN NaN
        ELSE Sqrt(SumTo(Square, Len(err)) \div (Len(err) - LpcOrder))

RECURSIVE PeakFrom(_, _)
PeakFrom(err, i) ==
    IF i > Len(err) THEN 0 ELSE Max(Abs(err[i]), PeakFrom(err, i + 1))
ErrorPeak(err) == PeakFrom(err, LpcOrder + 1)

\* Math.pow(sensitivity, p) in units of 0.0001 for sensitivity 0.1 .. 2.0
\* (tenths 1..20); p = 2.5, 2.2, 2.0, 2.3, 1.5 and 0.75 (the square root of
\* the 1.5 power).
Pow25Table ==
    << 32, 179, 493, 1012, 1768, 2789, 4100, 5724, 7684, 10000,
       12691, 15774, 19269, 23191, 27557, 32382, 37681, 43469, 49760, 56569 >>
Pow22Table ==
    << 63, 290, 707, 1332, 2176, 3250, 4563, 6121, 7931, 10000,
       12333, 14935, 17810, 20964, 24401, 28123, 32136, 36442, 41045, 45948 >>
Pow20Table ==
    << 100, 400, 900, 1600, 2500, 3600, 4900, 6400, 8100, 10000,
       12100, 14400, 16900, 19600, 22500, 25600, 28900, 32400, 36100, 40000 >>
Pow23Table ==
    << 50, 247, 627, 1215, 2031, 3089, 4403, 5986, 7848, 10000,
       12451, 15210, 18284, 21682, 25410, 29477, 33887, 38648, 43766, 49246 >>
Pow15Table ==
    << 316, 894, 1643, 2530, 3536, 4648, 5857, 7155, 8538, 10000,
       11537, 13145, 14822, 16565, 18371, 20239, 22165, 24150, 26190, 28284 >>
Pow075Table ==
    << 1778, 2991, 4054, 5030, 5946, 6817, 7653, 8459, 9240, 10000,
       10741, 11465, 12175, 12871, 13554, 14226, 14888, 15540, 16183, 16818 >>

Sensitivities == 1..20

\* sortedLoudness[Math.floor(length * 0.1)]: the value with at most that many
\* smaller entries and more than that many entries not above it.
BackgroundNoiseLevel(hist) ==
    LET idx == Len(hist) \div 10
        Below(v)   == Cardinality({i \in 1..Len(hist) : hist[i] < v})
        AtMost(v)  == Cardinality({i \in 1..Len(hist) : hist[i] <= v})
    IN  CHOOSE v \in {hist[i] : i \in 1..Len(hist)} : Below(v) <= idx /\ idx < AtMost(v)

\* signalToNoiseRatio in tenths of a dB, from the history that already holds
\* the frame's loudness: clamped to 0.1 .. 60.
SignalToNoiseRatio(hist, db) ==
    Max(1, Min(600, (db - BackgroundNoiseLevel(hist)) * 10))

\* this.adaptiveThreshold in thousandths: 0.65 / loudnessBoost clamped to
\* 0.1 .. 1.0, loudnessBoost = 3 - snr / 20 clamped to 1 .. 5.
AdaptiveThreshold(snr) ==
    LET loudnessBoost == Max(1000, Min(5000, 3000 - snr * 5))
    IN  Max(100, Min(1000, 650000 \div loudnessBoost))

\* Math.max(1.0, snr / k) in hundredths.
SnrFactor(snr, k) == Max(100, (snr * 10) \div k)

\* Math.min(2.0, x) in thousandths.
AtMostTwo(x) == IF x = NaN THEN NaN ELSE Min(2000, x)

\* The LPC confidence with a threshold that grows with the sensitivity
\* (0.018 * s^2.5) where the code's shrinks.
LpcConfidenceGrowingThreshold(errorRMS, errorPeak, s, snr) ==
    IF errorRMS = NaN THEN NaN
    ELSE LET scaled(e) == ((e * 10000) \div Pow25Table[s]) * SnrFactor(snr, 10)
         IN  Max(AtMostTwo(scaled(errorRMS) \div 18),
                 AtMostTwo(scaled(errorPeak) \div 54))

\* lpcConfidence: the larger of errorRMS / thr and errorPeak / (3 thr), each
\* capped at 2, with thr = 0.018 / s^2.5 / max(1, snr / 10).
LpcConfidence(errorRMS, errorPeak, s, snr) ==
    IF errorRMS = NaN THEN NaN
    ELSE LET scaled(e) == ((e * Pow25Table[s]) \div 1000) * SnrFactor(snr, 10)
         IN  Max(AtMostTwo(scaled(errorRMS) \div 180),
                 AtMostTwo(scaled(errorPeak) \div 540))

\* spectralFlux / adaptiveSpectralThreshold in thousandths, with
\* adaptiveSpectralThreshold = 0.16 / s^2.2 / max(1, snr / 8).
SpectralFluxRatio(spectralFlux, s, snr) ==
    IF spectralFlux = NaN THEN NaN
    ELSE (((spectralFlux * Pow22Table[s]) \div 100) * SnrFactor(snr, 8)) \div 160

\* mouthBandRatio / adaptiveTransientThreshold in thousandths, with
\* adaptiveTransientThreshold = 2.8 / s^2 / max(1, snr / 15).
MouthBandTransientRatio(mouthBandRatio, s, snr) ==
    (((mouthBandRatio * Pow20Table[s]) \div 1000) * SnrFactor(snr, 15)) \div 2800

\* amplitudeSpike: maxAmplitude > 0.1 / s^2.3 / max(1, snr / 20).
AmplitudeSpike(maxAmplitude, s, snr) ==
    ((maxAmplitude * Pow23Table[s]) \div 1000) * SnrFactor(snr, 20) > 1000000

\* The five method confidences from the features x of a frame.
MethodConfidences(x, s, snr) ==
    [ lpcOutlier         |-> LpcConfidence(x.errorRMS, x.errorPeak, s, snr),
      spectralFlux       |-> AtMostTwo(SpectralFluxRatio(x.spectralFlux, s, snr)),
      mouthBandTransient |-> AtMostTwo(MouthBandTransientRatio(x.mouthBandRatio, s, snr)),
      highFreqBurst      |-> AtMostTwo(x.highFreqBurst \div 2),
      amplitudeSpike     |-> IF AmplitudeSpike(x.maxAmplitude, s, snr) THEN 1500 ELSE 0 ]

\* finalConfidence: the weighted mean of the method confidences; every
\* weight is multiplied by skewWeight, which cancels unless the total is not
\* above 0 (skewWeight 0 or NaN), and then the result is 0.
FinalConfidence(c, skewWeightPositive) ==
    IF ~skewWeightPositive THEN 0
    ELSE IF c.lpcOutlier = NaN \/ c.spectralFlux = NaN THEN NaN
    ELSE (350 * c.lpcOutlier + 250 * c.spectralFlux + 200 * c.mouthBandTransient
              + 150 * c.highFreqBurst + 50 * c.amplitudeSpike) \div 1000

\* adjustedConfidence = finalConfidence * (1 - speechProtection)
AdjustedConfidence(final, speechProtection) ==
    IF final = NaN THEN NaN ELSE (final * (1000 - speechProtection)) \div 1000

\* isClickDetected: the fused confidence above the dynamic threshold, or a
\* strong LPC outlier with spectral flux, or an amplitude spike with mouth
\* band energy and an LPC outlier.  A comparison with NaN is false.
IsClickDetected(x, c, adjusted, s, snr) ==
    LET confidenceSensitivity == Pow15Table[s]
        dynamicThreshold == Min(AdaptiveThreshold(snr), 6500000 \div confidenceSensitivity)
        lpc == c.lpcOutlier
    IN  \/ adjusted # NaN /\ adjusted > dynamicThreshold
        \/ /\ lpc # NaN /\ lpc * confidenceSensitivity > 15000000
           /\ x.spectralFlux # NaN
           /\ SpectralFluxRatio(x.spectralFlux, s, snr) > 1000
        \/ /\ AmplitudeSpike(x.maxAmplitude, s, snr)
           /\ x.mouthBandRatio * Pow075Table[s] > 5000000
           /\ lpc # NaN /\ lpc * confidenceSensitivity > 10000000

\* The features detectMouthClick computes from a measured frame m: the LPC
\* result and prediction error of its analysis window, and the spectral and
\* amplitude measures of the whole frame.
Features(m) ==
    LET lpc == ComputeLPCCoefficients(m.window)
        err == ComputePredictionError(m.window, lpc.coefficients)
    IN  [ lpcResult      |-> lpc,
          lpcRounds      |-> LpcRounds(m.window),
          errorRMS       |-> ErrorRMS(err),
          errorPeak      |-> ErrorPeak(err),
          spectralFlux   |-> m.spectralFlux,
          mouthBandRatio |-> m.mouthBandRatio,
          highFreqBurst  |-> m.highFreqBurst,
          maxAmplitude   |-> m.maxAmplitude ]

\* detectMouthClick up to the call of shouldProcessClick, on a frame with
\* measurements m, at sensitivity s, with hist the loudness history that
\* already holds the frame.
DetectMouthClick(m, s, hist) ==
    LET snr      == SignalToNoiseRatio(hist, m.loudnessDb)
        x        == Features(m)
        c        == MethodConfidences(x, s, snr)
        final    == FinalConfidence(c, m.skewWeightPositive)
        adjusted == AdjustedConfidence(final, m.speechProtection)
    IN  [ ran              |-> TRUE,
          window           |-> m.window,
          features         |-> x,
          skewWeightPositive |-> m.skewWeightPositive,
          speechProtection |-> m.speechProtection,
          snr              |-> snr,
          sensitivity      |-> s,
          methods          |-> c,
          spectralConfidence |-> final,
          confidence       |-> adjusted,
          isClickDetected  |-> IsClickDetected(x, c, adjusted, s, snr) ]

NoDetection == [ ran |-> FALSE ]

-----------------------------------------------------------------------------
(* Configuration: the setters, updateParameters and the stored-settings load *)

Undefined == -888888888

\* SetReductionAmount writing the clamped value to the wrong field.
SetReductionAmountWrongField(p, v) == [p EXCEPT !.clickWidening = Clamp(-60, 0, v)]

SetSensitivity(p, v)     == [p EXCEPT !.sensitivity     = Clamp(1, 20, v)]
SetFrequencySkew(p, v)   == [p EXCEPT !.frequencySkew   = Clamp(-10, 10, v)]
SetClickWidening(p, v)   == [p EXCEPT !.clickWidening   = Clamp(1, 20, v)]
SetReductionAmount(p, v) == [p EXCEPT !.reductionAmount = Clamp(-60, 0, v)]

SetMode(p, m) ==
    IF m = "click" THEN [p EXCEPT !.mode = m]
    ELSE IF m = "smack"
    THEN [p EXCEPT !.mode = m,
                   !.clickWidening = Max(p.clickWidening, SmackMinWidening),
                   !.frequencySkew = Max(SmackSkewFloor, p.frequencySkew - SmackSkewShift)]
    ELSE p

\* Object.assign(this.params, newParams); newParams is a record over a subset
\* of the field names.
UpdateParameters(p, newParams) ==
    [f \in DOMAIN p |-> IF f \in DOMAIN newParams THEN newParams[f] ELSE p[f]]

\* The part of the storage callback that assigns the parameters.
LoadParameters(p, data) ==
    [ mode            |-> IF data.mode \notin {"undefined", ""} THEN data.mode ELSE p.mode,
      sensitivity     |-> IF data.sensitivity \notin {Undefined, 0, NaN}
                          THEN data.sensitivity ELSE p.sensitivity,
      frequencySkew   |-> IF data.frequencySkew # Undefined
                          THEN data.frequencySkew ELSE p.frequencySkew,
      clickWidening   |-> IF data.clickWidening \notin {Undefined, 0, NaN}
                          THEN data.clickWidening ELSE p.clickWidening,
      reductionAmount |-> IF data.reductionAmount # Undefined
                          THEN data.reductionAmount ELSE p.reductionAmount ]

\* hostname in siteSettings ? siteSettings[hostname] : data.processingEnabled !== false
LoadProcessingEnabled(data) ==
    IF data.siteSetting # "undefined" THEN data.siteSetting
    ELSE IF data.processingEnabled = "false" THEN "false" ELSE "true"

EmptyStorage ==
    [ siteSetting |-> "undefined", processingEnabled |-> "undefined",
      mode |-> "undefined", sensitivity |-> Undefined, frequencySkew |-> Undefined,
      clickWidening |-> Undefined, reductionAmount |-> Undefined ]

\* StopGain without the cancellation.
StopGainNoCancel(ev, t) == SetValueAtTime(ev, Unity, t)

\* cancelScheduledValues(currentTime); setValueAtTime(1.0, currentTime)
StopGain(ev, t) == SetValueAtTime(CancelScheduledValues(ev, t), Unity, t)

-----------------------------------------------------------------------------
(* Inputs of the model *)

Videos == {"v1", "v2"}

\* Frames: [loudnessDb, isClick, confidence] as detectMouthClick derives them.
Frame(db, isClick, c) == [loudnessDb |-> db, isClick |-> isClick, confidence |-> c]

Frames     == { Frame(-20, FALSE, 300), Frame(-20, TRUE, 900), Frame(-20, TRUE, NaN) }
RateFrames == { Frame(-60, FALSE, 300), Frame(-60, TRUE, 600), Frame(-60, TRUE, 1000) }

\* Time between two analyzeAudio calls, in microseconds.  RateDeltas is a
\* display that refreshes every 21 ms: every third frame, 63 ms apart, is
\* analysed, and two of those steps (126 ms) clear the minimum spacing.
Deltas == {0, 125000}
RateDeltas == {21000}

\* What chrome.storage.sync holds when the constructor's callback runs.
StoredSettings ==
    { EmptyStorage,
      [EmptyStorage EXCEPT !.siteSetting = "false"],
      [EmptyStorage EXCEPT !.clickWidening = 1, !.reductionAmount = -6],
      [EmptyStorage EXCEPT !.clickWidening = -5] }

RateStoredSettings ==
    { EmptyStorage, [EmptyStorage EXCEPT !.sensitivity = 20] }

-----------------------------------------------------------------------------
(* State after the content script has run AudioProcessor.init()             *)

\* The record of the analyzeAudio calls so far: whether each of the last
\* three reached detectMouthClick, newest last, and when a call last did.
NoCalls == [ reached |-> << >>, lastReachedAt |-> -1 ]

LogCall(log, reached, t) ==
    [ reached       |-> IF Len(log.reached) < ProcessingInterval
                        THEN Append(log.reached, reached)
                        ELSE Append(Tail(log.reached), reached),
      lastReachedAt |-> IF reached THEN t ELSE log.lastReachedAt ]

NoTick == [ kind |-> "none", faulted |-> FALSE, admitted |-> FALSE,
            isDetected |-> FALSE, confidence |-> 0, before |-> << >> ]

\* Tabs are named by the hostname of their page; the engine of the model
\* is the one of the page on ThisHostname.
Hostnames    == {"a.example", "b.example"}
ThisHostname == "a.example"

EnabledText(enabled) == IF enabled THEN "true" ELSE "false"

\* siteSettings: the stored map (a missing hostname is "undefined"); inbox:
\* toggleProcessing messages sent to a tab and not yet handled; gets and
\* sets: storage requests of toggleProcessing not yet answered; handled:
\* the value of the last toggleProcessing each tab ran; broadcasts: how
\* many times the popup's toggle was changed.
NoSync ==
    [ siteSettings |-> [h \in Hostnames |-> "undefined"],
      inbox        |-> [h \in Hostnames |-> << >>],
      gets         |-> {},
      sets         |-> {},
      handled      |-> [h \in Hostnames |-> "none"],
      broadcasts   |-> 0 ]

\* chrome.storage.sync.get(['siteSettings'], callback) of toggleProcessing.
IssueGet(sync, h, enabled) ==
    [sync EXCEPT !.gets = @ \cup {[tab |-> h, enabled |-> enabled]},
                 !.handled[h] = EnabledText(enabled)]

NoOp == [ op |-> "none", arg |-> << >>, before |-> DefaultParams ]

Init ==
    /\ context = "none"
    /\ playing = {}
    /\ connections = {}
    /\ deClicker = FALSE
    /\ loops = 0
    /\ loaded = FALSE
    /\ processingEnabled = "undefined"
    /\ params = DefaultParams
    /\ now = 0
    /\ frameCounter = 0
    /\ lastProcessingTime = 0
    /\ callLog = NoCalls
    /\ loudnessHistory = [i \in 1..HistoryLength |-> -60]
    /\ rawSamples = NoSamples
    /\ detection = NoDetection
    /\ clickHistory = << >>
    /\ lastClickTime = 0
    /\ clickSuppressionTime = 0
    /\ gainEvents = << >>
    /\ clickCount = 0
    /\ admitted = << >>
    /\ lastTick = NoTick
    /\ envelope = NoEnvelope
    /\ stoppedAt = -1
    /\ lastOp = NoOp
    /\ siteSync = NoSync

-----------------------------------------------------------------------------
(* AudioProcessor.handleVideo on a play event.  ensureAudioContext creates  *)
(* the context when there is none and asks a suspended one to resume;       *)
(* resume() settles later, so handleVideo reads the state as it is now.      *)
(* With the context running, a video not yet connected is routed through     *)
(* the engine, which is constructed on first use, and one more detection     *)
(* loop is started.  Otherwise handleVideo does nothing more.                *)

\* The context state on return from ensureAudioContext; startsRunning is
\* whether the browser lets a new context start at once (autoplay policy).
EnsureAudioContext(c, startsRunning) ==
    IF c = "none" THEN (IF startsRunning THEN "running" ELSE "suspended") ELSE c

HandleVideoOn(v, startsRunning) ==
    LET c == EnsureAudioContext(context, startsRunning)
    IN  /\ context' = c
        /\ playing' = playing \cup {v}
        /\ IF c = "running" /\ v \notin connections
           THEN /\ connections' = connections \cup {v}
                /\ deClicker' = TRUE
                /\ loops' = loops + 1
           ELSE UNCHANGED << connections, deClicker, loops >>
        /\ UNCHANGED << siteSync, loaded, processingEnabled, params, now, frameVars,
                        loudnessHistory, rawSamples, detection, rateVars, gainVars, lastTick,
                        stoppedAt, lastOp >>

\* A play event of a video not yet connected, on a page where the context
\* may start at once.
HandleVideo(v) == v \notin connections /\ HandleVideoOn(v, TRUE)

\* The promise of context.resume() settles: the context runs.
ResumeCompletes ==
    /\ context = "suspended"
    /\ context' = "running"
    /\ UNCHANGED << siteSync, playing, connections, deClicker, loops, loaded,
                    processingEnabled, params, now, frameVars, loudnessHistory, rawSamples, detection,
                    rateVars, gainVars, lastTick, stoppedAt, lastOp >>

\* The first click, touchstart or keydown on the page: ensureAudioContext.
UserGesture(startsRunning) ==
    /\ context' = EnsureAudioContext(context, startsRunning)
    /\ UNCHANGED << siteSync, playing, connections, deClicker, loops, loaded,
                    processingEnabled, params, now, frameVars, loudnessHistory, rawSamples, detection,
                    rateVars, gainVars, lastTick, stoppedAt, lastOp >>

(* The callback of the constructor's chrome.storage.sync.get *)
StoredSettingsLoad(data) ==
    /\ deClicker
    /\ ~loaded
    /\ loaded' = TRUE
    /\ processingEnabled' = LoadProcessingEnabled(data)
    /\ gainEvents' = IF LoadProcessingEnabled(data) # "true"
                     THEN SetValueAtTime(gainEvents, Unity, now)
                     ELSE gainEvents
    /\ params' = LoadParameters(params, data)
    /\ stoppedAt' = IF LoadProcessingEnabled(data) = "true" THEN -1 ELSE stoppedAt
    /\ lastOp' = [op |-> "load", arg |-> << data >>, before |-> params]
    /\ UNCHANGED << siteSync, pageVars, now, frameVars, loudnessHistory, rawSamples, detection, rateVars,
                    clickCount, envelope, lastTick >>

-----------------------------------------------------------------------------
(* One detect callback: analyzeAudio, then requestAnimationFrame(detect)    *)

\* Escapes without the try/catch of analyzeAudio.
EscapesUncaught(threw) == threw

\* analyzeAudio wraps the analysis in try/catch: no exception leaves it.
Escapes(threw) == FALSE

\* FrameSkipped without the minimum-elapsed-time check.
FrameSkippedNoTimeCheck(counter, t, last) == counter # 0

\* analyzeAudio returns before the analysis: the frame counter is not at a
\* multiple of processingInterval, or less than 1000 / targetProcessingRate
\* ms have passed since lastProcessingTime.
FrameSkipped(counter, t, last) ==
    counter # 0 \/ (t - last) * TargetProcessingRate < 1000000

PersistentState ==
    << loudnessHistory, clickHistory, lastClickTime, clickSuppressionTime >>

TickFrame(d, f, limit) ==
    /\ loops > 0
    /\ now + d <= limit
    /\ now' = now + d
    /\ frameCounter' = (frameCounter + 1) % ProcessingInterval
    /\ UNCHANGED << siteSync, context, playing, connections, deClicker, loaded,
                    processingEnabled, params, stoppedAt, lastOp >>
    /\ IF FrameSkipped(frameCounter', now', lastProcessingTime)
       THEN \* frame skipped, or less than 1000/60 ms since the last processing
            /\ lastTick' = [NoTick EXCEPT !.kind = "skipped"]
            /\ gainEvents' = Elapsed(gainEvents, now')
            /\ callLog' = LogCall(callLog, FALSE, now')
            /\ UNCHANGED << loops, lastProcessingTime, loudnessHistory, rawSamples,
                            rateVars, clickCount, envelope >>
       ELSE /\ lastProcessingTime' = now'
            /\ callLog' = LogCall(callLog, TRUE, now')
            /\ IF processingEnabled # "true"
               THEN \* detectMouthClick returns at once
                    /\ lastTick' = [NoTick EXCEPT !.kind = "disabled"]
                    /\ gainEvents' = Elapsed(gainEvents, now')
                    /\ rawSamples' = [rawSamples EXCEPT !.timeData = FrameLength]
                    /\ UNCHANGED << loops, loudnessHistory, rateVars,
                                    clickCount, envelope >>
               ELSE LET sp == ShouldProcessClick(
                                  [ clickHistory         |-> clickHistory,
                                    lastClickTime        |-> lastClickTime,
                                    clickSuppressionTime |-> clickSuppressionTime ],
                                  f.isClick, f.confidence, now', params.sensitivity)
                        h  == HandleMouthClickDetected(
                                  params, Elapsed(gainEvents, now'), now',
                                  f.confidence)
                        threw == sp.admit /\ h.threw
                    IN  /\ loudnessHistory' = UpdateDynamicLoudness(loudnessHistory,
                                                                    f.loudnessDb)
                        /\ rawSamples' =
                               [ timeData |-> FrameLength,
                                 circularBuffer |->
                                     WriteCircularBuffer(rawSamples.circularBuffer) ]
                        /\ clickHistory' = sp.rl.clickHistory
                        /\ lastClickTime' = sp.rl.lastClickTime
                        /\ clickSuppressionTime' = sp.rl.clickSuppressionTime
                        /\ admitted' = IF sp.admit THEN Append(admitted, now')
                                       ELSE admitted
                        /\ gainEvents' = IF sp.admit THEN h.events
                                         ELSE Elapsed(gainEvents, now')
                        /\ clickCount' = IF sp.admit /\ h.counted THEN clickCount + 1
                                         ELSE clickCount
                        /\ envelope' = IF sp.admit
                                       THEN [ called |-> TRUE, params |-> params,
                                              at |-> now', given |-> f.confidence,
                                              result |-> [h EXCEPT !.events = << >>] ]
                                       ELSE envelope
                        /\ lastTick' = [ kind |-> "analysed", faulted |-> threw,
                                         admitted |-> sp.admit,
                                         isDetected |-> f.isClick,
                                         confidence |-> f.confidence,
                                         before |-> PersistentState ]
                        /\ loops' = IF Escapes(threw) THEN loops - 1 ELSE loops

\* A detect callback on a frame given by what detectMouthClick derives from it.
Tick(d, f, limit) == TickFrame(d, f, limit) /\ UNCHANGED detection

\* A detect callback on a frame given by its measurements m: when the frame
\* is analysed with processing enabled, detectMouthClick derives the
\* decision and the confidence handed to the rate limiter.
MeasuredTick(d, m, limit) ==
    LET det == DetectMouthClick(m, params.sensitivity,
                                UpdateDynamicLoudness(loudnessHistory, m.loudnessDb))
    IN  /\ TickFrame(d, Frame(m.loudnessDb, det.isClickDetected, det.confidence), limit)
        /\ detection' = IF lastTick'.kind = "analysed" THEN det ELSE detection

\* A detect callback on a frame given by its time-domain samples, which the
\* loudness tracker converts; the detectors find nothing in it.
LoudnessTick(d, timeData, limit) ==
    Tick(d, Frame(LoudnessDb(timeData), FALSE, 300), limit)

-----------------------------------------------------------------------------
(* The chrome.runtime.onMessage listener: ignored until the engine exists   *)

\* toggleProcessing(enabled) of the engine of this page, with the traffic
\* sync as it is when the handler starts: the field, the storage get it
\* issues, and the gain reset when disabling.
ToggleProcessingFrom(sync, enabled) ==
    /\ deClicker
    /\ processingEnabled' = EnabledText(enabled)
    /\ siteSync' = IssueGet(sync, ThisHostname, enabled)
    /\ gainEvents' = IF enabled THEN gainEvents ELSE StopGain(gainEvents, now)
    /\ stoppedAt' = IF enabled THEN -1 ELSE now
    /\ UNCHANGED << pageVars, loaded, params, now, frameVars, loudnessHistory, rawSamples, detection,
                    rateVars, clickCount, envelope, lastTick, lastOp >>

ToggleProcessing(enabled) == ToggleProcessingFrom(siteSync, enabled)

engineVars == << pageVars, loaded, processingEnabled, params, now, frameVars, loudnessHistory,
                 rawSamples, detection, rateVars, gainVars, lastTick, stoppedAt, lastOp >>

\* The popup's processingToggle handler: updateAllTabs sends the message to
\* every tab.
BroadcastToggle(enabled) ==
    /\ siteSync.broadcasts < MaxBroadcasts
    /\ siteSync' = [siteSync EXCEPT
                       !.broadcasts = @ + 1,
                       !.inbox = [h \in Hostnames |-> Append(@[h], enabled)]]
    /\ UNCHANGED engineVars

\* The listener of the tab on hostname h takes its next message.  On this
\* page it returns at once while there is no engine; the other tabs have
\* theirs.
DeliverToggle(h) ==
    /\ siteSync.inbox[h] # << >>
    /\ LET enabled == Head(siteSync.inbox[h])
           taken   == [siteSync EXCEPT !.inbox[h] = Tail(@)]
       IN  IF h # ThisHostname
           THEN siteSync' = IssueGet(taken, h, enabled) /\ UNCHANGED engineVars
           ELSE IF deClicker
           THEN ToggleProcessingFrom(taken, enabled)
           ELSE siteSync' = taken /\ UNCHANGED engineVars

\* The storage answers a get: the callback of toggleProcessing writes its
\* hostname into the map it was given and issues the set of the whole map.
StorageGetServed(h) ==
    /\ \E get \in siteSync.gets :
           /\ get.tab = h
           /\ siteSync' = [siteSync EXCEPT
                  !.gets = @ \ {get},
                  !.sets = @ \cup
                      {[ tab  |-> h,
                         data |-> [siteSync.siteSettings EXCEPT
                                       ![h] = EnabledText(get.enabled)] ]}]
    /\ UNCHANGED engineVars

\* The storage carries out a set({siteSettings: map}).
StorageSetApplied(h) ==
    /\ \E set \in siteSync.sets :
           /\ set.tab = h
           /\ siteSync' = [siteSync EXCEPT !.sets = @ \ {set}, !.siteSettings = set.data]
    /\ UNCHANGED engineVars

Configure(op, arg, p) ==
    /\ deClicker
    /\ params' = p
    /\ lastOp' = [op |-> op, arg |-> << arg >>, before |-> params]
    /\ UNCHANGED << siteSync, pageVars, loaded, processingEnabled, now, frameVars,
                    loudnessHistory, rawSamples, detection, rateVars, gainVars, lastTick, stoppedAt >>

UpdateSensitivity(v)     == Configure("setSensitivity", v, SetSensitivity(params, v))
UpdateFrequencySkew(v)   == Configure("setFrequencySkew", v, SetFrequencySkew(params, v))
UpdateClickWidening(v)   == Configure("setClickWidening", v, SetClickWidening(params, v))
UpdateReductionAmount(v) == Configure("setReductionAmount", v, SetReductionAmount(params, v))
UpdateMode(m)            == Configure("setMode", m, SetMode(params, m))
CallUpdateParameters(np) == Configure("updateParameters", np, UpdateParameters(params, np))

-----------------------------------------------------------------------------
(* Spec: the engine on a page, with toggles and a few configuration updates *)

Next ==
    \/ HandleVideo("v1")
    \/ \E data \in StoredSettings : StoredSettingsLoad(data)
    \/ \E d \in Deltas, f \in Frames : Tick(d, f, MaxTime)
    \/ \E enabled \in BOOLEAN : ToggleProcessing(enabled)

Spec == Init /\ [][Next]_vars

-----------------------------------------------------------------------------
(* SpecRate: one detection loop over a horizon longer than the rate window  *)

NextRate ==
    \/ HandleVideo("v1")
    \/ \E data \in RateStoredSettings : StoredSettingsLoad(data)
    \/ \E d \in RateDeltas, f \in RateFrames : Tick(d, f, MaxRateTime)

SpecRate == Init /\ [][NextRate]_vars

-----------------------------------------------------------------------------
(* SpecConfig: the configuration interface and the stored-settings load     *)

SensitivityInputs     == {0, 1, 8, 20, 25}
FrequencySkewInputs   == {-15, -10, 0, 5, 10, 12}
ClickWideningInputs   == {0, 1, 5, 20, 30}
ReductionAmountInputs == {-80, -60, -6, 0, 5}
ModeInputs            == {"click", "smack", "pop"}

PartialParams ==
    { [sensitivity |-> 15],
      [clickWidening |-> 0],
      [frequencySkew |-> 3, reductionAmount |-> -12],
      [mode |-> "smack"] }

\* Storage as the popup writes it: valid values, and the percentage an older
\* popup stored under the key sensitivity.
ConfigStoredSettings ==
    { EmptyStorage,
      [EmptyStorage EXCEPT !.mode = "smack", !.sensitivity = 8, !.frequencySkew = -5,
                           !.clickWidening = 12, !.reductionAmount = -12],
      [EmptyStorage EXCEPT !.sensitivity = 1000] }

NextConfig ==
    \/ HandleVideo("v1")
    \/ \E data \in ConfigStoredSettings : StoredSettingsLoad(data)
    \/ \E v \in SensitivityInputs : UpdateSensitivity(v)
    \/ \E v \in FrequencySkewInputs : UpdateFrequencySkew(v)
    \/ \E v \in ClickWideningInputs : UpdateClickWidening(v)
    \/ \E v \in ReductionAmountInputs : UpdateReductionAmount(v)
    \/ \E m \in ModeInputs : UpdateMode(m)
    \/ \E np \in PartialParams : CallUpdateParameters(np)

SpecConfig == Init /\ [][NextConfig]_vars

-----------------------------------------------------------------------------
(* SpecSchedule: one analysed tick for every parameter combination.  The    *)
(* initial states are the engine after two skipped frames, with the          *)
(* parameters any sequence of setters, updateParameters or a stored-settings *)
(* load can leave.                                                           *)

ScheduleWidenings == (1..20) \cup {-5, 0, 500, NaN}
ScheduleReductions == (-60..0) \cup {-80, 6, 20, NaN}

ScheduleParams ==
    { [DefaultParams EXCEPT !.clickWidening = w, !.reductionAmount = r, !.mode = m] :
        w \in ScheduleWidenings, r \in ScheduleReductions, m \in {"click", "smack"} }

ScheduleFrames == { Frame(-20, TRUE, 900), Frame(-20, TRUE, NaN) }

InitSchedule ==
    /\ context = "running"
    /\ playing = {"v1"}
    /\ connections = {"v1"}
    /\ deClicker = TRUE
    /\ loops = 1
    /\ loaded = TRUE
    /\ processingEnabled = "true"
    /\ params \in ScheduleParams
    /\ now = 0
    /\ frameCounter = 2
    /\ lastProcessingTime = 0
    /\ callLog = [ reached |-> << FALSE, FALSE >>, lastReachedAt |-> -1 ]
    /\ loudnessHistory = [i \in 1..HistoryLength |-> -60]
    /\ rawSamples = NoSamples
    /\ detection = NoDetection
    /\ clickHistory = << >>
    /\ lastClickTime = 0
    /\ clickSuppressionTime = 0
    /\ gainEvents = << >>
    /\ clickCount = 0
    /\ admitted = << >>
    /\ lastTick = [NoTick EXCEPT !.kind = "skipped"]
    /\ envelope = NoEnvelope
    /\ stoppedAt = -1
    /\ lastOp = NoOp
    /\ siteSync = NoSync

NextSchedule ==
    \E f \in ScheduleFrames : Tick(MinClickInterval, f, MinClickInterval)

SpecSchedule == InitSchedule /\ [][NextSchedule]_vars

-----------------------------------------------------------------------------
(* SpecLoop: detection loops under the scheduling of requestAnimationFrame: *)
(* while a detect callback is pending, a frame in which time has advanced   *)
(* eventually runs it.                                                      *)

MaxLoopTime == 750000

LoopStoredSettings ==
    { EmptyStorage, [EmptyStorage EXCEPT !.clickWidening = -5],
      [EmptyStorage EXCEPT !.clickWidening = 500] }

LoopFrames == { Frame(-20, FALSE, 300), Frame(-20, TRUE, 900) }

AdvancingTick == \E f \in LoopFrames : Tick(MinClickInterval, f, MaxLoopTime)

NextLoop ==
    \/ \E v \in Videos : HandleVideo(v)
    \/ \E data \in LoopStoredSettings : StoredSettingsLoad(data)
    \/ \E f \in LoopFrames : Tick(0, f, MaxLoopTime)
    \/ AdvancingTick

SpecLoop == Init /\ [][NextLoop]_vars /\ WF_vars(AdvancingTick)

-----------------------------------------------------------------------------
(* SpecPlay: play events and user gestures on a page whose audio context    *)
(* may be created suspended.  A pending resume() eventually settles, and a  *)
(* pending detect callback eventually runs; nothing makes the user press    *)
(* play again.                                                              *)

NextPlay ==
    \/ \E v \in Videos, startsRunning \in BOOLEAN : HandleVideoOn(v, startsRunning)
    \/ \E startsRunning \in BOOLEAN : UserGesture(startsRunning)
    \/ ResumeCompletes
    \/ \E data \in LoopStoredSettings : StoredSettingsLoad(data)
    \/ \E f \in LoopFrames : Tick(0, f, MaxLoopTime)
    \/ AdvancingTick

SpecPlay ==
    Init /\ [][NextPlay]_vars /\ WF_vars(ResumeCompletes) /\ WF_vars(AdvancingTick)

-----------------------------------------------------------------------------
(* SpecDetect: one detection loop on measured frames.  A frame is given by   *)
(* its LPC analysis window (the last samples of timeData) and by what the    *)
(* rest of detectMouthClick measures on timeData and on the analyser's       *)
(* spectrum, which covers more samples than the window does.                 *)

MaxDetectTime == 378000

DetectDelta == 63000

\* Analysis windows: silence, a constant level, one outlier sample, an
\* alternating tone, and a step.
DetectWindows ==
    { << 0, 0, 0, 0, 0, 0 >>, << 100, 100, 100, 100, 100, 100 >>,
      << 0, 0, 0, 0, 300, 0 >>, << 100, -100, 100, -100, 100, -100 >>,
      << 0, 0, 0, 200, 200, 200 >> }

\* What the spectrum gives: a silent spectrum (flux NaN from -Infinity minus
\* -Infinity), steady speech, a broadband burst, a moderate change, and a
\* burst weighted out by an extreme frequency skew.
Spectra ==
    { [ spectralFlux |-> NaN, mouthBandRatio |-> 0, highFreqBurst |-> 0,
        skewWeightPositive |-> TRUE, speechProtection |-> 0 ],
      [ spectralFlux |-> 0, mouthBandRatio |-> 500, highFreqBurst |-> 300,
        skewWeightPositive |-> TRUE, speechProtection |-> 480 ],
      [ spectralFlux |-> 50, mouthBandRatio |-> 3000, highFreqBurst |-> 4000,
        skewWeightPositive |-> TRUE, speechProtection |-> 0 ],
      [ spectralFlux |-> 10, mouthBandRatio |-> 1000, highFreqBurst |-> 1000,
        skewWeightPositive |-> TRUE, speechProtection |-> 180 ],
      [ spectralFlux |-> 50, mouthBandRatio |-> 3000, highFreqBurst |-> 4000,
        skewWeightPositive |-> FALSE, speechProtection |-> 0 ] }

RECURSIVE PeakOf(_)
PeakOf(window) ==
    IF window = << >> THEN 0 ELSE Max(Abs(Head(window)), PeakOf(Tail(window)))

\* maxAmplitude is taken over all of timeData, so it is the peak of the
\* window or a larger sample before the window.
Measurement(window, larger, db, spectrum) ==
    [ window             |-> window,
      maxAmplitude       |-> Max(PeakOf(window), larger),
      loudnessDb         |-> db,
      spectralFlux       |-> spectrum.spectralFlux,
      mouthBandRatio     |-> spectrum.mouthBandRatio,
      highFreqBurst      |-> spectrum.highFreqBurst,
      skewWeightPositive |-> spectrum.skewWeightPositive,
      speechProtection   |-> spectrum.speechProtection ]

\* timeData all zero has loudness -60 dB; any other frame is at -20 dB.
DetectMeasurements ==
    { Measurement(w, larger, IF PeakOf(w) = 0 /\ larger = 0 THEN -60 ELSE -20, sp) :
        w \in DetectWindows, larger \in {0, 5000}, sp \in Spectra }

DetectStoredSettings ==
    { EmptyStorage, [EmptyStorage EXCEPT !.sensitivity = 5],
      [EmptyStorage EXCEPT !.sensitivity = 20] }

NextDetect ==
    \/ HandleVideo("v1")
    \/ \E data \in DetectStoredSettings : StoredSettingsLoad(data)
    \/ \E m \in DetectMeasurements : MeasuredTick(DetectDelta, m, MaxDetectTime)

SpecDetect == Init /\ [][NextDetect]_vars

-----------------------------------------------------------------------------
(* SpecCadence: detect callbacks of up to two detection loops arriving      *)
(* faster than the processing rate: several in one animation frame (no time *)
(* between them) or a few milliseconds apart.                               *)

MaxCadenceTime == 60000

CadenceDeltas == {0, 5000, 12000}

CadenceStoredSettings == { EmptyStorage, [EmptyStorage EXCEPT !.siteSetting = "false"] }

CadenceFrames == { Frame(-60, FALSE, 300) }

NextCadence ==
    \/ \E v \in Videos : HandleVideo(v)
    \/ \E data \in CadenceStoredSettings : StoredSettingsLoad(data)
    \/ \E d \in CadenceDeltas, f \in CadenceFrames : Tick(d, f, MaxCadenceTime)

SpecCadence == Init /\ [][NextCadence]_vars

-----------------------------------------------------------------------------
(* Claims about the rate limiter (SpecRate)                                 *)

\* The admitted events whose timestamps lie in the 1-second window that ends
\* at the j-th admitted event (the window of the code's own pruning:
\* currentTime - time < 1000).
AdmittedInWindow(j) ==
    { i \in 1..Len(admitted) :
        /\ admitted[i] <= admitted[j]
        /\ admitted[j] - admitted[i] < HistoryWindow }

\* C1: for any sequence of ticks and detections, no trailing 1-second window
\* holds more than maxClicksPerSecond (8) admitted events.  A window holds
\* the most events when it ends at an admitted event, so those are checked.
C1_AtMostEightPerWindow ==
    \A j \in 1..Len(admitted) : Cardinality(AdmittedInWindow(j)) <= MaxClicksPerSecond

\* Nine events have been admitted and a window holds exactly eight of them.
C1_Witness ==
    /\ Len(admitted) >= MaxClicksPerSecond + 1
    /\ \E j \in 1..Len(admitted) :
           Cardinality(AdmittedInWindow(j)) = MaxClicksPerSecond

\* C2: any two admitted events are at least minClickInterval (125 ms) apart.
C2_MinimumSpacing ==
    \A i, j \in 1..Len(admitted) :
        i < j => admitted[j] - admitted[i] >= MinClickInterval

\* Two events admitted 126 ms apart at sensitivity 2.0, and a detection 63 ms
\* after the second one has just been turned down.
C2_Witness ==
    /\ params.sensitivity = 20
    /\ Len(admitted) >= 2
    /\ admitted[2] - admitted[1] < 2 * MinClickInterval
    /\ lastTick.kind = "analysed" /\ ~lastTick.admitted
    /\ now > admitted[Len(admitted)]
    /\ now - admitted[Len(admitted)] < MinClickInterval

-----------------------------------------------------------------------------
(* Claims about the gain scheduler (SpecSchedule)                           *)

Scheduled == envelope.called /\ ~envelope.result.threw

\* C3: with every parameter in its valid range, every gain value that
\* handleMouthClickDetected schedules is finite and lies in [0.0001, 1.0].
C3_GainValuesInRange ==
    (Scheduled /\ ValidParams(envelope.params)) =>
        \A i \in 1..Len(envelope.result.points) :
            /\ envelope.result.points[i].value # NaN
            /\ envelope.result.points[i].value >= GainFloor
            /\ envelope.result.points[i].value <= Unity

\* An envelope scheduled at a corner of the valid ranges: reductionAmount 0,
\* clickWidening 20, smack mode.
C3_Witness ==
    /\ Scheduled
    /\ ValidParams(envelope.params)
    /\ envelope.params.reductionAmount = 0
    /\ envelope.params.clickWidening = 20
    /\ envelope.params.mode = "smack"
    /\ Len(envelope.result.points) = 6
    /\ gainEvents # << >>

InvalidReduction == envelope.params.reductionAmount = NaN
InvalidConfidence == envelope.given = NaN \/ envelope.given < 0
InvalidWidening == WideningInvalid(WideningDuration(envelope.params))

\* C8: called with an invalid reduction factor, confidence or widening
\* duration, the scheduler replaces the value with its safe default
\* (0.0001, 0.5, 5 ms), emits a gain curve and counts the click.
C8_InvalidInputReplaced ==
    (envelope.called /\ (InvalidReduction \/ InvalidConfidence \/ InvalidWidening)) =>
        /\ ~envelope.result.threw
        /\ envelope.result.counted /\ clickCount = 1
        /\ envelope.result.points # << >>
        /\ InvalidReduction => envelope.result.reductionFactor = GainFloor
        /\ InvalidConfidence => envelope.result.confidence = 500
        /\ InvalidWidening => envelope.result.widening = DefaultWidening

-----------------------------------------------------------------------------
(* Claims about stopping and about faulted ticks (Spec)                     *)

FarFuture == MaxTime + HistoryWindow

\* C4: from toggleProcessing(false) until processing is enabled again no
\* automation is pending and the gain is 1.0: at the stop, now and ever after.
C4_StopForcesUnityGain ==
    stoppedAt >= 0 =>
        /\ \A t \in {stoppedAt, now, FarFuture} : GainAt(gainEvents, t) = Unity
        /\ \A i \in 1..Len(gainEvents) :
               gainEvents[i].time >= stoppedAt =>
                   gainEvents[i] = SetEvent(Unity, gainEvents[i].time)

\* The stop came strictly inside a ramp of the last envelope, and ticks have
\* run since.
C4_Witness ==
    /\ stoppedAt >= 0
    /\ now > stoppedAt
    /\ lastTick.kind = "disabled"
    /\ Scheduled
    /\ \E i \in 1..(Len(envelope.result.points) - 1) :
           /\ envelope.result.points[i + 1].kind = "ramp"
           /\ envelope.result.points[i].time < stoppedAt
           /\ stoppedAt < envelope.result.points[i + 1].time

\* C10: a tick in which a fault occurred leaves the loudness history, the
\* rate-limiter window, the last-event time and the suppression-until time
\* as they were before the tick.
C10_FaultedTickLeavesStateIntact ==
    lastTick.faulted => PersistentState = lastTick.before

-----------------------------------------------------------------------------
(* Claims about the configuration interface (SpecConfig)                    *)

ParamFields == {"sensitivity", "frequencySkew", "clickWidening", "reductionAmount", "mode"}

\* The last configuration operation left every field outside S as it was.
ChangedOnly(S) == \A f \in ParamFields \ S : params[f] = lastOp.before[f]

\* C5: in every reachable state of the engine the parameters are in their
\* ranges, whatever the messages, updateParameters or the stored-settings
\* load supplied.
C5_ParametersAlwaysInRange == deClicker => ValidParams(params)

C7_UpdatesAreIdempotent ==
    /\ lastOp.op = "setSensitivity" => SetSensitivity(params, lastOp.arg[1]) = params
    /\ lastOp.op = "setFrequencySkew" => SetFrequencySkew(params, lastOp.arg[1]) = params
    /\ lastOp.op = "setClickWidening" => SetClickWidening(params, lastOp.arg[1]) = params
    /\ lastOp.op = "setReductionAmount" =>
           SetReductionAmount(params, lastOp.arg[1]) = params
    /\ lastOp.op = "setMode" => SetMode(params, lastOp.arg[1]) = params

-----------------------------------------------------------------------------
(* Claim about the detection loop (SpecLoop)                                *)

AtHorizon == now + MinClickInterval > MaxLoopTime

LoopTimes == { k * (MinClickInterval \div 2) : k \in 0..(2 * (MaxLoopTime \div MinClickInterval)) }

\* C9: the loop never stops: no tick, faulted or not, takes a pending detect
\* callback away, and after a tick whose analysis threw, a later tick is
\* analysed again (within the horizon of the model).
C9_LoopNeverStops ==
    /\ [][loops' >= loops]_vars
    /\ \A t \in LoopTimes :
           (lastTick.faulted /\ lastProcessingTime = t)
               ~> (lastProcessingTime > t \/ AtHorizon)

\* A tick was analysed after an earlier tick had faulted (an admitted click
\* that was never counted), with the loop still pending.
C9_Witness ==
    /\ loops > 0
    /\ clickCount < Len(admitted)
    /\ lastTick.kind = "analysed" /\ ~lastTick.faulted
    /\ lastProcessingTime > admitted[Len(admitted)]

-----------------------------------------------------------------------------
(* Claims about the resolved reduction (SpecSchedule)                       *)

\* C11: a reductionAmount at or below -60 is clamped to -60 by
\* setReductionAmount, and with reductionAmount -60 the reduction factor
\* resolved for an admitted click is the floor 0.0001, never zero.
C11_CompleteRemovalResolvesToFloor ==
    /\ \A v \in ReductionAmountInputs :
           v <= -60 => SetReductionAmount(params, v).reductionAmount = -60
    /\ (envelope.called /\ envelope.params.reductionAmount = -60) =>
           /\ envelope.result.reductionFactor = GainFloor
           /\ envelope.result.reductionFactor # 0

\* A click was admitted and its envelope scheduled with reductionAmount -60.
C11_Witness ==
    /\ Scheduled
    /\ envelope.params.reductionAmount = -60
    /\ clickCount = 1

\* C12: with reductionAmount 0 dB every gain value of the envelope of an
\* admitted click is 1.0.
C12_ZeroDbIsBypass ==
    (Scheduled /\ envelope.params.reductionAmount = 0) =>
        \A i \in 1..Len(envelope.result.points) :
            envelope.result.points[i].value = Unity

-----------------------------------------------------------------------------
(* Claims about a disabled engine (Spec)                                    *)

\* A step is a detect callback exactly when it advances the frame counter.
IsTick == frameCounter' # frameCounter

NotEnabled == processingEnabled # "true"

\* C13: while processing is not enabled (toggled off, loaded as off, or the
\* stored flag not loaded yet) no tick admits an event or schedules gain
\* automation, and the gain at the current time is 1.0.
C13_DisabledTicksDoNothing ==
    [][(NotEnabled /\ IsTick) =>
          /\ UNCHANGED << admitted, clickHistory, lastClickTime, clickSuppressionTime,
                           clickCount, envelope, loudnessHistory >>
          /\ gainEvents' = Elapsed(gainEvents, now')
          /\ GainAt(gainEvents', now') = Unity]_vars

-----------------------------------------------------------------------------
(* Claim about play events (SpecPlay)                                       *)

\* C14: a video that has started playing is eventually routed through the
\* processing chain with a detection loop running, also when the audio
\* context was still suspended at its play event.
C14_PlayingVideoEventuallyRouted ==
    \A v \in Videos : (v \in playing) ~> (v \in connections /\ loops > 0)

-----------------------------------------------------------------------------
(* Claim about raw samples (Spec)                                           *)

\* C15: once a tick has completed, no state of the engine holds raw
\* time-domain samples of the frame it consumed.
C15_NoSamplesRetained ==
    lastTick.kind # "none" =>
        /\ rawSamples.timeData = 0
        /\ rawSamples.circularBuffer = << >>

-----------------------------------------------------------------------------
(* Claims about detection on measured frames (SpecDetect)                   *)

\* a < b is false: the comparison of JavaScript, false when either is NaN.
NotLower(a, b) == a = NaN \/ b = NaN \/ a >= b

ConfidenceGrid == { 0, 400, 650, 1000, 2000 }

\* C16: for the frame and prior state of the last detection and any two
\* sensitivities s1 <= s2 in 0.1 .. 2.0, no method confidence, nor the fused
\* confidence, nor the confidence handed to the rate limiter is lower at s2
\* than at s1, and a confidence below the rate limiter's requirement at s2 is
\* below it at s1 for every window size.
C16_SensitivityNeverLowersConfidence ==
    detection.ran =>
        \A s1 \in Sensitivities, s2 \in Sensitivities :
            s1 <= s2 =>
                LET x  == detection.features
                    c1 == MethodConfidences(x, s1, detection.snr)
                    c2 == MethodConfidences(x, s2, detection.snr)
                    f1 == FinalConfidence(c1, detection.skewWeightPositive)
                    f2 == FinalConfidence(c2, detection.skewWeightPositive)
                IN  /\ \A k \in DOMAIN c1 : NotLower(c2[k], c1[k])
                    /\ NotLower(f2, f1)
                    /\ NotLower(AdjustedConfidence(f2, detection.speechProtection),
                                AdjustedConfidence(f1, detection.speechProtection))
                    /\ \A n \in 0..MaxClicksPerSecond :
                           \A c \in ConfidenceGrid \cup {detection.confidence} :
                               BelowRequiredConfidence(c, n, s2)
                                   => BelowRequiredConfidence(c, n, s1)

\* A frame analysed at sensitivity 0.5 under speech protection whose LPC,
\* flux and mouth-band confidences and fused confidence are strictly higher
\* at sensitivity 2.0 than at 0.1.
C16_Witness ==
    /\ detection.ran
    /\ detection.sensitivity = 5
    /\ detection.speechProtection > 0
    /\ LET c1 == MethodConfidences(detection.features, 1, detection.snr)
           c2 == MethodConfidences(detection.features, 20, detection.snr)
       IN  /\ c1.lpcOutlier < c2.lpcOutlier
           /\ c1.spectralFlux < c2.spectralFlux
           /\ c1.mouthBandTransient < c2.mouthBandTransient
           /\ c2.spectralFlux # NaN
           /\ FinalConfidence(c1, detection.skewWeightPositive)
                  < FinalConfidence(c2, detection.skewWeightPositive)

AllZero(window) == \A i \in 1..Len(window) : window[i] = 0

IsDegenerate(window) ==
    Len(window) < 2 * LpcOrder \/ 100 * AutocorrelationSum(window, 0) < Len(window)

\* C17: after an analysed tick whose LPC window is degenerate (too short or
\* without energy) the LPC result is all-zero coefficients with error 1.0,
\* and when the window is all zeros the LPC confidence is 0 and the tick
\* admits no click.
C17_DegenerateWindowNoClick ==
    (lastTick.kind = "analysed" /\ detection.ran) =>
        /\ IsDegenerate(detection.window)
               => detection.features.lpcResult = DegenerateLpc
        /\ AllZero(detection.window)
               => /\ detection.methods.lpcOutlier = 0
                  /\ ~lastTick.admitted

-----------------------------------------------------------------------------
(* Claims about the admission rule (SpecRate)                               *)

\* The step is an analysed tick with processing enabled.
IsAnalysedTick == IsTick /\ lastTick'.kind = "analysed"

\* C18: an analysed tick that detected an event admits it exactly when, with
\* the window pruned to the last second, the time is not before the
\* suppression-until time, the window holds fewer than 8 timestamps, at least
\* 125 ms have passed since the last admitted event and the confidence is at
\* least (0.5 + 0.3 n / 8) / sensitivity^0.8 for window size n; on admission
\* the time is appended to the pruned window and becomes the last-event time,
\* and suppression-until becomes the time plus 50 ms.
C18_AdmissionRule ==
    [][ (IsAnalysedTick /\ lastTick'.isDetected) =>
            LET t      == now'
                pruned == SelectSeq(clickHistory, LAMBDA x : t - x < 1000000)
                n      == Len(pruned)
                enough == lastTick'.confidence * Pow08(params.sensitivity) * 8
                              >= (4000 + 300 * n) * 1000
            IN  /\ lastTick'.admitted
                       <=> /\ t >= clickSuppressionTime
                           /\ n < 8
                           /\ t - lastClickTime >= 125000
                           /\ enough
                /\ lastTick'.admitted
                       => /\ clickHistory' = Append(pruned, t)
                          /\ lastClickTime' = t
                          /\ clickSuppressionTime' = t + 50000
      ]_vars

\* At sensitivity 1.0 an event of confidence 1.0 was admitted into a window
\* that already held three timestamps of the last second, where the
\* requirement is 0.6125.
C18_Witness ==
    /\ lastTick.kind = "analysed"
    /\ lastTick.isDetected /\ lastTick.admitted
    /\ lastTick.confidence = 1000
    /\ params.sensitivity = 10
    /\ Len(clickHistory) = 4
    /\ clickHistory[4] = now
    /\ lastClickTime = now
    /\ clickSuppressionTime = now + SuppressionTime

\* C19: after every analysed tick, whether or not it detected a click, every
\* timestamp in the window is less than 1 second older than the current
\* time.
C19_NoStaleTimestampAfterTick ==
    lastTick.kind = "analysed" =>
        \A i \in 1..Len(clickHistory) : now - clickHistory[i] < HistoryWindow

-----------------------------------------------------------------------------
(* Claim about the fallback gain curve (SpecLoop)                           *)

-----------------------------------------------------------------------------
(* Claim about the processing rate (SpecCadence)                            *)

ReachesDetection(kind) == kind \in {"analysed", "disabled"}

RECURSIVE CountReached(_)
CountReached(flags) ==
    IF flags = << >> THEN 0
    ELSE (IF Head(flags) THEN 1 ELSE 0) + CountReached(Tail(flags))

\* C21: a call of analyzeAudio that reaches detectMouthClick comes at least
\* 1000 / 60 ms after the previous call that did, and of any three
\* consecutive calls at most one reaches it, with one or two detection loops
\* and whatever the time between calls.
C21_ProcessingRateBounded ==
    [][ IsTick =>
            /\ (ReachesDetection(lastTick'.kind) /\ callLog.lastReachedAt >= 0)
                   => (now' - callLog.lastReachedAt) * 60 >= 1000000
            /\ CountReached(callLog'.reached) <= 1
      ]_vars

\* With two detection loops started, a second call has reached detection
\* (the sample ring holds two frames), the two calls before it did not, and
\* the window is 24 ms or less, so the calls came faster than the rate.
C21_Witness ==
    /\ loops = 2
    /\ lastTick.kind = "analysed"
    /\ callLog.reached = << FALSE, FALSE, TRUE >>
    /\ callLog.lastReachedAt = now
    /\ Len(rawSamples.circularBuffer) = 2
    /\ lastTick.before # << >>
    /\ now <= 2 * 24000

-----------------------------------------------------------------------------
(* Claim about the recovery of an envelope (SpecSchedule)                   *)

\* C22: in every envelope emitted with valid parameters, from the control
\* point that reaches the held level to the final point the gains of
\* successive control points do not decrease.
C22_RecoveryNeverDrops ==
    (envelope.called /\ envelope.result.kind # "none" /\ ValidParams(envelope.params)) =>
        LET points == envelope.result.points
            first  == IF envelope.result.kind = "main" THEN 2 ELSE 1
        IN  /\ points[Len(points)].value = Unity
            /\ \A i \in first..(Len(points) - 1) :
                   points[i].value <= points[i + 1].value

-----------------------------------------------------------------------------
(* Claims about the linear predictor (SpecDetect)                           *)

\* C23: for the window of the last detection, when it is long enough for
\* the autocorrelation to be computed, every r[k] for k in 0 .. order is the
\* lag-k product sum divided by the window length n.
C23_AutocorrelationBiased ==
    (detection.ran /\ Len(detection.window) >= 2 * LpcOrder) =>
        \A k \in 0..LpcOrder :
            Autocorrelation(detection.window, k)
                = AutocorrelationSum(detection.window, k) \div Len(detection.window)

\* C24: in every round i the recursion runs on the analysed window, a round
\* that goes on gives every a[j], 1 <= j < i, the value
\* old a[j] - lambda * old a[i-j] taken from the coefficients held before the
\* round, and a round that stops leaves the coefficients as they were.
C24_RoundUsesValuesBeforeIt ==
    detection.ran =>
        \A n \in 1..Len(detection.features.lpcRounds) :
            LET round == detection.features.lpcRounds[n]
            IN  IF round.step.stopped
                THEN round.step.coefficients = round.before
                ELSE \A j \in 1..(round.i - 1) :
                         round.step.coefficients[j]
                             = round.before[j]
                               - (round.step.lambda * round.before[round.i - j]) \div 1000

-----------------------------------------------------------------------------
(* SpecLoudness: frames given by their samples: silent, all non-finite,     *)
(* very quiet (0.0001 and 0.0003), partly non-finite, at 0.001 and loud.    *)

MaxLoudnessTime == 252000

LoudnessDelta == 21000

LoudnessWindows ==
    { << 0, 0, 0, 0 >>, << NaN, NaN, NaN, NaN >>, << 1, -1, 1, -1 >>,
      << 3, 0, 0, 0 >>, << NaN, 5, NaN, 0 >>, << 10, 10, -10, -10 >>,
      << 1000, -1000, 1000, -1000 >> }

NextLoudness ==
    \/ HandleVideo("v1")
    \/ \E data \in { EmptyStorage } : StoredSettingsLoad(data)
    \/ \E td \in LoudnessWindows : LoudnessTick(LoudnessDelta, td, MaxLoudnessTime)

SpecLoudness == Init /\ [][NextLoudness]_vars

-----------------------------------------------------------------------------
(* Claims about the loudness tracker (SpecLoudness)                         *)

\* C25: the loudness value an analysed frame pushes into the history is
\* finite and not below -60 dB, whatever the frame's samples are.
C25_PushedLoudnessFloored ==
    lastTick.kind = "analysed" =>
        LET pushed == loudnessHistory[Len(loudnessHistory)]
        IN  pushed # NaN /\ pushed >= -60

-----------------------------------------------------------------------------
(* SpecWiden: clicks detected in frame after frame under valid stored       *)
(* parameters: the defaults, the widest click envelope and the widest smack *)
(* envelope.                                                                *)

MaxWidenTime == 273000

WidenDelta == 21000

WidenStoredSettings ==
    { EmptyStorage, [EmptyStorage EXCEPT !.clickWidening = 20],
      [EmptyStorage EXCEPT !.clickWidening = 20, !.mode = "smack"] }

WidenFrames == { Frame(-20, FALSE, 300), Frame(-20, TRUE, 900) }

NextWiden ==
    \/ HandleVideo("v1")
    \/ \E data \in WidenStoredSettings : StoredSettingsLoad(data)
    \/ \E f \in WidenFrames : Tick(WidenDelta, f, MaxWidenTime)

SpecWiden == Init /\ [][NextWiden]_vars

-----------------------------------------------------------------------------
(* Claims about consecutive envelopes (SpecWiden)                           *)

\* C26: when an event is admitted after an earlier one, both scheduled under
\* valid parameters, every control point of the earlier envelope lies
\* before the time from which the later call cancels and not after the
\* later envelope's first point (the start of its fade-in).
C26_EnvelopesNeverOverlap ==
    [][(/\ IsTick
        /\ lastTick'.admitted
        /\ envelope.called /\ envelope.result.kind = "main"
        /\ envelope'.result.kind = "main"
        /\ ValidParams(envelope.params) /\ ValidParams(envelope'.params))
       => LET earlier    == envelope.result.points
              cancelTime == envelope'.at + LookAhead - 2 * envelope'.result.widening
              fadeIn     == envelope'.result.points[1].time
          IN  \A i \in 1..Len(earlier) :
                  earlier[i].time < cancelTime /\ earlier[i].time <= fadeIn]_vars

-----------------------------------------------------------------------------
(* Claims about messages and the stored-settings load (SpecConfig)          *)

\* The parameter a message of the listener sets through its setter.
FieldSetBy(op) ==
    CASE op = "setSensitivity"     -> "sensitivity"
      [] op = "setFrequencySkew"   -> "frequencySkew"
      [] op = "setClickWidening"   -> "clickWidening"
      [] op = "setReductionAmount" -> "reductionAmount"
      [] op = "setMode"            -> "mode"

SetterMessages ==
    { "setSensitivity", "setFrequencySkew", "setClickWidening", "setReductionAmount",
      "setMode" }

\* C27: when the storage callback of the constructor runs right after a
\* message handler, the parameter that message set keeps its value.
C27_LoadKeepsMessageValue ==
    [][(lastOp'.op = "load" /\ lastOp.op \in SetterMessages)
       => params'[FieldSetBy(lastOp.op)] = params[FieldSetBy(lastOp.op)]]_vars

-----------------------------------------------------------------------------
(* Claims about the click counter (Spec)                                    *)

\* C28: clickCount equals the number of events the rate limiter has
\* admitted.
C28_CountEqualsAdmissions == clickCount = Len(admitted)

-----------------------------------------------------------------------------
(* Claims about the window of the rate limiter (SpecRate)                   *)

\* C29: whenever the window pruned at the current time holds 8 timestamps,
\* less than 125 ms have passed since the last admitted event; and an
\* admitted event found at most 7 earlier timestamps in the window.
C29_FullWindowMeansTooSoon ==
    /\ WindowFull(PruneHistory(clickHistory, now)) =>
           TooSoonAfterLast(now, lastClickTime)
    /\ lastTick.admitted => Len(clickHistory) - 1 <= MaxClicksPerSecond - 1

\* A detection past the suppression period was rejected while the pruned
\* window held 8 timestamps.
C29_Witness ==
    /\ Len(PruneHistory(clickHistory, now)) = MaxClicksPerSecond
    /\ lastTick.kind = "analysed" /\ lastTick.isDetected /\ ~lastTick.admitted
    /\ ~InSuppression(now, clickSuppressionTime)
    /\ TooSoonAfterLast(now, lastClickTime)

-----------------------------------------------------------------------------
(* SpecToggle: the popup's toggle broadcast to the tabs of two hostnames,   *)
(* each tab's get-then-set of siteSettings, and the storage answering the   *)
(* requests in any order.                                                   *)

ToggleStoredSettings == { EmptyStorage, [EmptyStorage EXCEPT !.siteSetting = "false"] }

NextToggle ==
    \/ HandleVideo("v1")
    \/ \E data \in ToggleStoredSettings : StoredSettingsLoad(data)
    \/ \E enabled \in BOOLEAN : BroadcastToggle(enabled)
    \/ \E h \in Hostnames : DeliverToggle(h)
    \/ \E h \in Hostnames : StorageGetServed(h)
    \/ \E h \in Hostnames : StorageSetApplied(h)

SpecToggle == Init /\ [][NextToggle]_vars

-----------------------------------------------------------------------------
(* Claims about the persisted site settings (SpecToggle)                    *)

\* Every message is handled and every storage request answered.
SyncSettled ==
    /\ \A h \in Hostnames : siteSync.inbox[h] = << >>
    /\ siteSync.gets = {} /\ siteSync.sets = {}

\* C30: once a broadcast toggle is handled by the tabs and the storage has
\* answered every request, siteSettings holds, for the hostname of every
\* tab that ran toggleProcessing, the value that tab was given.
C30_NoSiteSettingLost ==
    SyncSettled =>
        \A h \in Hostnames :
            siteSync.handled[h] # "none" => siteSync.siteSettings[h] = siteSync.handled[h]

====
